---- MODULE Spec2Model ----
(***************************************************************************)
(* Model of trage-agent-go: the TraeAgent execution loop (pkg/agent), the  *)
(* retry and cache decorators around the LLM client (pkg/llm) and the      *)
(* built-in tools (pkg/tools).                                             *)
(*                                                                         *)
(* Text is modelled as a sequence of words; strings.ToLower maps each word *)
(* to its lower-case form and strings.Contains(text, k) holds when k is    *)
(* one of the (lower-cased) words.                                         *)
(***************************************************************************)
EXTENDS Integers, Sequences, FiniteSets, TLC

\* ------------------------------------------------------------------ bounds
MaxStepsBound == 3   \* configured max_steps ranges over 0..MaxStepsBound
MaxToolCalls == 2    \* tool calls carried by one model response
MaxRetriesBound == 2 \* configured MaxRetries ranges over -1..MaxRetriesBound
MaxCacheSize == 2    \* configured cache MaxSize ranges over 1..MaxCacheSize
MaxCacheOps == 3     \* cache operations started by the foreground goroutines
MaxTime == 2         \* clock ticks the cache lives through
MaxToolRuns == 2     \* Execute calls made on the built-in tools

\* ------------------------------------------------------------------- state
VARIABLES
    maxSteps,             \* BaseAgent.maxSteps
    stepCount,            \* BaseAgent.stepCount
    conversationHistory,  \* TraeAgent.conversationHistory
    tracker,              \* ToolExecutionTracker.stats
    pc,                   \* position of the agent goroutine inside Run
    messages,             \* ExecuteTask local: messages
    execution,            \* ExecuteTask local: execution
    response,             \* ExecuteTask local: response of the current iteration
    tcIdx,                \* index of the tool call the inner loop is at
    runErr,               \* Run returned (nil, err)
    runs,                 \* number of Run invocations so far
    chatLog,              \* outcome of every llmClient.Chat call of the current run, in order
    toolExecs,            \* tool.Execute calls made by the current run
    stepLog,              \* step counter values assigned by AddExecutionStep in this run
    baTools,              \* BaseAgent.tools (names)
    toolNames,            \* Run argument: toolNames of the latest run
    chatTools,            \* tools argument of the latest llmClient.Chat call of this run
    exitCode,             \* exit code of the process started by the run command
    retryConfig,          \* RetryableLLMClient.retryConfig
    nowSec,               \* wall clock read by calculateDelay (seconds since the epoch)
    rcPc,                 \* position inside RetryableLLMClient.Chat
    attempt,              \* Chat local: attempt
    lastErr,              \* Chat local: lastErr
    ctxElapsed,           \* time since the attempt's context was created (ms)
    delay,                \* Chat local: delay (ms)
    rcReturn,             \* what Chat returned: [response, err]
    gwLog,                \* outcome of every call made to the wrapped client, in order
    taskCancelled,        \* the context handed to TraeAgent.Run has been cancelled
    callbacks,            \* calls of EnhancedRetryConfig.BeforeRetry / AfterRetry so far
    cacheConfig,          \* MemoryCache.config: [MaxSize, TTL]
    clock,                \* wall clock read by the cache (ticks)
    cache,                \* MemoryCache.cache: key -> entry (NoEntry when absent)
    stats,                \* MemoryCache.stats: [Hits, Misses, Evictions, Size, HitRate]
    mutex,                \* MemoryCache.mutex: [writer, readers]
    g,                    \* per goroutine: position and locals of its cache operation
    opsStarted,           \* cache operations started by the foreground goroutines
    okCalls,              \* successful calls of the wrapped client per request, counted
                          \* since the entry of the request's key last left the cache
    keyReq,               \* generateCacheKey: the requests of two calls, "a" and "b"
    keyDay,               \* generateCacheKey: the date at each of the two calls
    keyOut,               \* generateCacheKey: the key each call returned
    execCall,             \* the tool and arguments of the latest Execute call
    toolRet,              \* what that call returned: [err, result]
    btTimeout,            \* BashTool.timeout (seconds)
    files,                \* the file system seen by EditTool: path -> [exists, data]
    cmdRuns,              \* the commands BashTool has started, in order
    stdout,               \* the lines the tools printed, in order
    toolRuns              \* number of Execute calls made

agentVars == <<maxSteps, stepCount, conversationHistory, tracker, pc, messages,
               execution, response, tcIdx, runErr, runs, chatLog, toolExecs, stepLog,
               baTools, toolNames, chatTools, exitCode>>

\* number of llmClient.Chat calls made by the current run
modelCalls == Len(chatLog)

\* -------------------------------------------------------------------- text
Words == {"ok", "Done", "oops"}

ToLower(w) == IF w = "Done" THEN "done" ELSE w

completionKeywords ==
    {"renwu wancheng", "wancheng", "done", "finished", "complete",
     "renwu yi jieshu", "zhixing wanbi", "over", "success"}

isTaskComplete(content) ==
    \E i \in 1..Len(content) : ToLower(content[i]) \in completionKeywords

NoText == <<>>

\* ------------------------------------------------------------------- tools
\* the tools added to the agent (AddTool), and the names a model answer may call
RegisteredTools == {"bash", "edit_file"}
ToolNames == {"bash", "ghost"}

\* the orders in which a range over a Go map of the tools in S can visit them
IterationOrders(S) ==
    {s \in [1..Cardinality(S) -> S] : \A tool \in S : \E i \in 1..Cardinality(S) : s[i] = tool}

\* the elements of a list
Elements(s) == {s[i] : i \in 1..Len(s)}

\* ToolRegistry.GetToolDefinitions: one definition per registered tool, appended
\* while ranging over the map tr.tools; the possible results of one call
GetToolDefinitions == IterationOrders(RegisteredTools)

\* the toolNames argument a run may be started with (empty: no filtering)
ToolNameLists == {<<>>, <<"bash">>, <<"edit_file">>}

ToolRegistryGet(name) == name \in RegisteredTools

\* what tool.Execute can return: (result, nil) or (nil, err)
ToolOutcomes ==
    { [err |-> NoText,             Success |-> TRUE,  Result |-> <<"ok">>,   Error |-> NoText],
      [err |-> NoText,             Success |-> TRUE,  Result |-> <<"Done">>, Error |-> NoText],
      [err |-> NoText,             Success |-> FALSE, Result |-> <<"Done">>, Error |-> <<"exit status 1">>],
      [err |-> <<"bad arguments">>, Success |-> FALSE, Result |-> NoText,    Error |-> NoText] }

\* ----------------------------------------------------------------- gateway
RECURSIVE ToolCallSeqs(_, _)
ToolCallSeqs(n, len) ==
    IF len = 0 THEN {<<>>}
    ELSE { Append(s, [ID |-> <<n, len>>, Name |-> nm]) :
              s \in ToolCallSeqs(n, len - 1), nm \in ToolNames }

\* the assistant messages the gateway may answer on its n-th call of a run
\* (a final answer with or without a completion keyword, or a request for tools)
GatewayResponses(n) ==
    { [Role |-> "assistant", Content |-> <<w>>, ToolCalls |-> <<>>, ToolCallID |-> <<>>] :
         w \in {"ok", "Done"} }
    \cup
    { [Role |-> "assistant", Content |-> <<"ok">>, ToolCalls |-> tcs, ToolCallID |-> <<>>] :
         tcs \in UNION { ToolCallSeqs(n, len) : len \in 1..MaxToolCalls } }

GatewayErrors == {"timeout", "status 401"}

NoResponse == [Role |-> "none", Content |-> NoText, ToolCalls |-> <<>>, ToolCallID |-> <<>>]

\* ------------------------------------------------------------------- agent
SystemMessage == [Role |-> "system", Content |-> <<"system prompt">>,
                  ToolCalls |-> <<>>, ToolCallID |-> <<>>]

UserMessage(task) == [Role |-> "user", Content |-> <<task>>,
                      ToolCalls |-> <<>>, ToolCallID |-> <<>>]

ToolMessage(toolCall, toolResult) ==
    [Role |-> "tool", Content |-> toolResult.Result,
     ToolCalls |-> <<>>, ToolCallID |-> toolCall.ID]

NewExecution == [Success |-> FALSE, Output |-> NoText, Error |-> NoText, ToolResults |-> <<>>,
                 Steps |-> <<>>]

\* BaseAgent.getExecutionSteps: the step list the base agent holds; it holds
\* none, AddExecutionStep keeps no record
getExecutionSteps == <<>>

\* the statements after the main loop of ExecuteTask
Finish(exec) == [exec EXCEPT !.Steps = getExecutionSteps]

NoExit == -1

StepLimitError(max) == <<"maximum number of steps exceeded", max>>

CheckStepLimit(count, max) == IF count >= max THEN StepLimitError(max) ELSE NoText

LLMErrorMsg(err) ==
    <<"LLM call failed", err>> \o
    (IF err = "status 401" THEN <<"invalid API key hint">> ELSE <<>>)

ToolNotFoundMsg(name) == <<"tool not found", name>>

\* the tasks submitted to one agent instance, each at most once; a further task
\* is submitted only while the history holds no model answer yet
Tasks == {"t1", "t2"}

SubmittedTasks ==
    { conversationHistory[i].Content[1] :
        i \in {j \in 1..Len(conversationHistory) : conversationHistory[j].Role = "user"} }

AgentInit ==
    /\ maxSteps \in 0..MaxStepsBound
    /\ stepCount = 0
    /\ conversationHistory = <<>>
    /\ tracker = <<>>
    /\ pc = "idle"
    /\ messages = <<>>
    /\ execution = NewExecution
    /\ response = NoResponse
    /\ tcIdx = 0
    /\ runErr = FALSE
    /\ runs = 0
    /\ chatLog = <<>>
    /\ toolExecs = 0
    /\ stepLog = <<>>
    /\ baTools = RegisteredTools
    /\ toolNames = <<>>
    /\ chatTools = <<>>
    /\ exitCode = NoExit

\* BaseAgent.AddExecutionStep: the counter moves, the step record is dropped
AddExecutionStep ==
    /\ stepCount' = stepCount + 1
    /\ stepLog' = Append(stepLog, stepCount + 1)

StopStepThreshold == 3

shouldStopExecution(exec, count) ==
    LET successfulTools ==
            Cardinality({i \in 1..Len(exec.ToolResults) : exec.ToolResults[i].Success})
        lastResult == exec.ToolResults[Len(exec.ToolResults)]
    IN  /\ successfulTools > 0
        /\ exec.Error = NoText
        /\ \/ /\ Len(exec.ToolResults) > 0
              /\ lastResult.Success
              /\ isTaskComplete(lastResult.Result)
           \/ count >= StopStepThreshold

\* TraeAgent.Run: NewTask, then ExecuteTask up to the head of its loop
Run(task, names) ==
    /\ pc \in {"idle", "returned"}
    /\ exitCode = NoExit
    /\ toolNames' = names
    /\ baTools' = IF Len(names) > 0
                  THEN {tool \in baTools : \E i \in 1..Len(names) : names[i] = tool}
                  ELSE baTools
    /\ chatTools' = <<>>
    /\ task \notin SubmittedTasks
    /\ \A i \in 1..Len(conversationHistory) : conversationHistory[i].Role = "user"
    /\ runs' = runs + 1
    /\ stepCount' = 0
    /\ conversationHistory' = Append(conversationHistory, UserMessage(task))
    /\ chatLog' = <<>>
    /\ toolExecs' = 0
    /\ stepLog' = <<>>
    /\ response' = NoResponse
    /\ tcIdx' = 0
    /\ LET err == CheckStepLimit(0, maxSteps) IN
         IF err # NoText
         THEN /\ execution' = [NewExecution EXCEPT !.Error = err]
              /\ runErr' = TRUE
              /\ messages' = <<>>
              /\ pc' = "returned"
         ELSE /\ execution' = NewExecution
              /\ runErr' = FALSE
              /\ messages' = <<SystemMessage>> \o conversationHistory'
              /\ pc' = "loop"
    /\ UNCHANGED <<maxSteps, tracker, exitCode>>

\* variant: the loop is entered whatever the step counter says
LoopHead_NoLimit ==
    /\ pc = "loop"
    /\ messages' = IF stepCount = 0 /\ Len(conversationHistory) = 0
                   THEN Append(messages, UserMessage("task"))
                   ELSE messages
    /\ pc' = "chat"
    /\ UNCHANGED <<maxSteps, stepCount, conversationHistory, tracker, response, tcIdx,
                   runErr, runs, chatLog, toolExecs, stepLog, execution,
                   baTools, toolNames, chatTools, exitCode>>

\* head of the main loop of ExecuteTask; leaving the loop returns (execution, nil)
LoopHead ==
    /\ pc = "loop"
    /\ IF stepCount < maxSteps
       THEN LET err == CheckStepLimit(stepCount, maxSteps) IN
              IF err # NoText
              THEN /\ execution' = Finish([execution EXCEPT !.Error = err])
                   /\ pc' = "returned"
                   /\ UNCHANGED messages
              ELSE /\ messages' = IF stepCount = 0 /\ Len(conversationHistory) = 0
                                  THEN Append(messages, UserMessage("task"))
                                  ELSE messages
                   /\ pc' = "chat"
                   /\ UNCHANGED execution
       ELSE /\ pc' = "returned"
            /\ execution' = Finish(execution)
            /\ UNCHANGED messages
    /\ UNCHANGED <<maxSteps, stepCount, conversationHistory, tracker, response, tcIdx,
                   runErr, runs, chatLog, toolExecs, stepLog,
                   baTools, toolNames, chatTools, exitCode>>

\* variant: the loop goes on after a failed Chat instead of breaking
ChatFails_NoBreak(err) ==
    /\ pc = "chat"
    /\ chatLog' = Append(chatLog, err)
    /\ chatTools' \in GetToolDefinitions
    /\ execution' = [execution EXCEPT !.Error = LLMErrorMsg(err)]
    /\ pc' = "loop"
    /\ UNCHANGED <<maxSteps, stepCount, conversationHistory, tracker, messages, response,
                   tcIdx, runErr, runs, toolExecs, stepLog, baTools, toolNames, exitCode>>

\* llmClient.Chat fails
ChatFails(err) ==
    /\ pc = "chat"
    /\ chatLog' = Append(chatLog, err)
    /\ chatTools' \in GetToolDefinitions
    /\ execution' = Finish([execution EXCEPT !.Error = LLMErrorMsg(err)])
    /\ pc' = "returned"
    /\ UNCHANGED <<maxSteps, stepCount, conversationHistory, tracker, messages, response,
                   tcIdx, runErr, runs, toolExecs, stepLog, baTools, toolNames, exitCode>>

\* llmClient.Chat answers resp
ChatReturns(resp) ==
    /\ pc = "chat"
    /\ chatLog' = Append(chatLog, "ok")
    /\ chatTools' \in GetToolDefinitions
    /\ response' = resp
    /\ messages' = Append(messages, resp)
    /\ conversationHistory' = Append(conversationHistory, resp)
    /\ IF Len(resp.ToolCalls) > 0
       THEN /\ pc' = "tools"
            /\ tcIdx' = 1
            /\ UNCHANGED <<execution, stepCount, stepLog>>
       ELSE IF isTaskComplete(resp.Content)
            THEN /\ execution' = Finish([execution EXCEPT !.Success = TRUE,
                                                            !.Output = resp.Content])
                 /\ pc' = "returned"
                 /\ UNCHANGED <<tcIdx, stepCount, stepLog>>
            ELSE /\ AddExecutionStep
                 /\ pc' = "loop"
                 /\ UNCHANGED <<tcIdx, execution>>
    /\ UNCHANGED <<maxSteps, tracker, runErr, runs, toolExecs, baTools, toolNames, exitCode>>

\* inner loop: the tool named by the current call is not registered
ToolNotFound ==
    /\ pc = "tools"
    /\ LET toolCall == response.ToolCalls[tcIdx] IN
         /\ ~ToolRegistryGet(toolCall.Name)
         /\ execution' = [execution EXCEPT !.Error = ToolNotFoundMsg(toolCall.Name)]
         /\ pc' = "afterTools"
    /\ UNCHANGED <<maxSteps, stepCount, conversationHistory, tracker, messages, response,
                   tcIdx, runErr, runs, chatLog, toolExecs, stepLog,
                   baTools, toolNames, chatTools, exitCode>>

\* variant: an error returned by tool.Execute ends the run
ToolExecute_ErrorAborts(out) ==
    /\ pc = "tools"
    /\ LET toolCall == response.ToolCalls[tcIdx]
           toolResult ==
               IF out.err # NoText
               THEN [CallID |-> toolCall.ID, Name |-> toolCall.Name, Success |-> FALSE,
                     Result |-> NoText, Error |-> out.err]
               ELSE [CallID |-> <<>>, Name |-> "", Success |-> out.Success,
                     Result |-> out.Result, Error |-> out.Error]
       IN
         /\ ToolRegistryGet(toolCall.Name)
         /\ toolExecs' = toolExecs + 1
         /\ tracker' = Append(tracker, [ToolName |-> toolCall.Name,
                                        Success |-> (out.err = NoText), Error |-> out.err])
         /\ AddExecutionStep
         /\ execution' = IF out.err # NoText
                          THEN Finish([execution EXCEPT !.ToolResults = Append(@, toolResult)])
                          ELSE [execution EXCEPT !.ToolResults = Append(@, toolResult)]
         /\ messages' = Append(messages, ToolMessage(toolCall, toolResult))
         /\ conversationHistory' = Append(conversationHistory, ToolMessage(toolCall, toolResult))
         /\ IF out.err # NoText
            THEN tcIdx' = tcIdx /\ pc' = "returned"
            ELSE IF tcIdx < Len(response.ToolCalls)
            THEN tcIdx' = tcIdx + 1 /\ pc' = "tools"
            ELSE tcIdx' = tcIdx /\ pc' = "afterTools"
    /\ UNCHANGED <<maxSteps, response, runErr, runs, chatLog,
                   baTools, toolNames, chatTools, exitCode>>

\* inner loop: the current call is executed and tool.Execute returns out
ToolExecute(out) ==
    /\ pc = "tools"
    /\ LET toolCall == response.ToolCalls[tcIdx]
           toolResult ==
               IF out.err # NoText
               THEN [CallID |-> toolCall.ID, Name |-> toolCall.Name, Success |-> FALSE,
                     Result |-> NoText, Error |-> out.err]
               ELSE [CallID |-> <<>>, Name |-> "", Success |-> out.Success,
                     Result |-> out.Result, Error |-> out.Error]
       IN
         /\ ToolRegistryGet(toolCall.Name)
         /\ toolExecs' = toolExecs + 1
         /\ tracker' = Append(tracker, [ToolName |-> toolCall.Name,
                                        Success |-> (out.err = NoText), Error |-> out.err])
         /\ AddExecutionStep
         /\ execution' = [execution EXCEPT !.ToolResults = Append(@, toolResult)]
         /\ messages' = Append(messages, ToolMessage(toolCall, toolResult))
         /\ conversationHistory' = Append(conversationHistory, ToolMessage(toolCall, toolResult))
         /\ IF tcIdx < Len(response.ToolCalls)
            THEN tcIdx' = tcIdx + 1 /\ pc' = "tools"
            ELSE tcIdx' = tcIdx /\ pc' = "afterTools"
    /\ UNCHANGED <<maxSteps, response, runErr, runs, chatLog,
                   baTools, toolNames, chatTools, exitCode>>

\* after the inner loop: stop on the completion heuristic or record the step
AfterTools ==
    /\ pc = "afterTools"
    /\ IF shouldStopExecution(execution, stepCount)
       THEN /\ execution' = Finish([execution EXCEPT !.Success = TRUE,
                                              !.Output = <<"task completed through tools">>])
            /\ pc' = "returned"
            /\ UNCHANGED <<stepCount, stepLog>>
       ELSE /\ AddExecutionStep
            /\ pc' = "loop"
            /\ UNCHANGED execution
    /\ UNCHANGED <<maxSteps, conversationHistory, tracker, messages, response, tcIdx,
                   runErr, runs, chatLog, toolExecs, baTools, toolNames, chatTools, exitCode>>

\* the run command: runTask returns after the one Run (with toolNames nil) of its
\* agent and main exits with status 1 exactly when runTask returned an error
runTask ==
    /\ pc = "returned"
    /\ runs = 1
    /\ toolNames = <<>>
    /\ exitCode = NoExit
    /\ exitCode' = IF runErr THEN 1 ELSE 0
    /\ UNCHANGED <<maxSteps, stepCount, conversationHistory, tracker, pc, messages, execution,
                   response, tcIdx, runErr, runs, chatLog, toolExecs, stepLog,
                   baTools, toolNames, chatTools>>

AgentNext ==
    \/ \E task \in Tasks, names \in ToolNameLists : Run(task, names)
    \/ LoopHead
    \/ \E err \in GatewayErrors : ChatFails(err)
    \/ \E resp \in GatewayResponses(modelCalls + 1) : ChatReturns(resp)
    \/ ToolNotFound
    \/ \E out \in ToolOutcomes : ToolExecute(out)
    \/ AfterTools
    \/ runTask

\* the steps of a run in progress: ExecuteTask goes on as long as the gateway
\* and the tools return from every call
AgentStep ==
    \/ LoopHead
    \/ \E err \in GatewayErrors : ChatFails(err)
    \/ \E resp \in GatewayResponses(modelCalls + 1) : ChatReturns(resp)
    \/ ToolNotFound
    \/ \E out \in ToolOutcomes : ToolExecute(out)
    \/ AfterTools

\* ------------------------------------------------------------ retry wrapper
retryVars == <<retryConfig, nowSec, rcPc, attempt, lastErr, ctxElapsed, delay, rcReturn, gwLog,
               taskCancelled, callbacks>>

ErrorTypes == {"invalid_request", "authentication_error", "permission_error",
               "quota_exceeded", "rate_limited", "transient_network", "unknown"}

\* errors of the wrapped client: *llm.Error values (typed) and plain errors
ClientErrors ==
    [typed : {TRUE}, Type : ErrorTypes, Message : {<<"connection reset">>, <<"permission denied">>}]
    \cup
    [typed : {FALSE}, Type : {""}, Message : {<<"connection reset">>, <<"invalid api key">>}]

NoError == [typed |-> FALSE, Type |-> "", Message |-> NoText]

Contains(text, phrase) == \E i \in 1..Len(text) : text[i] = phrase

IsRetryableError(err) ==
    IF err = NoError THEN FALSE
    ELSE IF err.typed /\ err.Type \in {"invalid_request", "authentication_error",
                                       "permission_error", "quota_exceeded"}
    THEN FALSE
    ELSE IF \/ Contains(err.Message, "invalid api key")
            \/ Contains(err.Message, "authentication failed")
            \/ Contains(err.Message, "permission denied")
    THEN FALSE
    ELSE TRUE

RECURSIVE Pow(_, _)
Pow(b, e) == IF e = 0 THEN 1 ELSE b * Pow(b, e - 1)

Min(a, b) == IF a < b THEN a ELSE b

\* min(cap, a + j * n), computed without forming a product beyond cap
CappedSum(a, j, n, cap) ==
    IF a > cap THEN cap
    ELSE IF j > 0 /\ n > (cap - a) \div j THEN cap
    ELSE a + j * n

\* RetryableLLMClient.calculateDelay, in milliseconds
calculateDelay(cfg, k, now) ==
    LET base   == cfg.BaseDelay * Pow(cfg.BackoffRate, k)
        jitter == base \div 10
    IN  CappedSum(base, jitter, now, cfg.MaxDelay)

AttemptTimeout == 120000

\* how long one call of the wrapped client may take (ms)
CallDurations == {50, 60000, 120000}

RetryConfigs ==
    [MaxRetries : -1..MaxRetriesBound, BaseDelay : {10, 1000}, MaxDelay : {100, 30000},
     BackoffRate : {2}]

RetryResponses == GatewayResponses(1)

NoReturn == [response |-> NoResponse, err |-> NoText]

RetryInit ==
    /\ retryConfig \in RetryConfigs
    /\ nowSec \in {1600000000, 1700000000}
    /\ rcPc = "idle"
    /\ attempt = 0
    /\ lastErr = NoError
    /\ ctxElapsed = 0
    /\ delay = 0
    /\ rcReturn = NoReturn
    /\ gwLog = <<>>
    /\ taskCancelled = FALSE
    /\ callbacks = [before |-> 0, after |-> 0]

\* Chat is entered: the loop head is evaluated for attempt = 0
RetryChat ==
    /\ rcPc = "idle"
    /\ attempt' = 0
    /\ IF 0 <= retryConfig.MaxRetries
       THEN /\ rcPc' = "call"
            /\ UNCHANGED rcReturn
       ELSE /\ rcPc' = "returned"
            /\ rcReturn' = [response |-> NoResponse,
                            err |-> <<"unexpected retry loop exit", lastErr>>]
    /\ ctxElapsed' = 0
    /\ UNCHANGED <<callbacks, taskCancelled, retryConfig, nowSec, lastErr, delay, gwLog>>

\* the wrapped client answers: Chat returns the response at once
ClientAnswers(resp, dur) ==
    /\ rcPc = "call"
    /\ gwLog' = Append(gwLog, [ok |-> TRUE, err |-> NoError])
    /\ lastErr' = NoError
    /\ ctxElapsed' = dur
    /\ rcReturn' = [response |-> resp, err |-> NoText]
    /\ rcPc' = "returned"
    /\ UNCHANGED <<callbacks, taskCancelled, retryConfig, nowSec, attempt, delay>>

\* variant: the classification of the error is skipped
ClientFails_NoClassification(err, dur) ==
    /\ rcPc = "call"
    /\ gwLog' = Append(gwLog, [ok |-> FALSE, err |-> err])
    /\ lastErr' = err
    /\ ctxElapsed' = dur
    /\ IF attempt = retryConfig.MaxRetries
       THEN /\ rcReturn' = [response |-> NoResponse,
                            err |-> <<"max retries exceeded, last error", err>>]
            /\ rcPc' = "returned"
            /\ UNCHANGED delay
       ELSE /\ delay' = calculateDelay(retryConfig, attempt, nowSec)
            /\ rcPc' = "wait"
            /\ UNCHANGED rcReturn
    /\ UNCHANGED <<callbacks, taskCancelled, retryConfig, nowSec, attempt>>

\* the wrapped client fails: classify, give up, or compute the delay and wait
ClientFails(err, dur) ==
    /\ rcPc = "call"
    /\ gwLog' = Append(gwLog, [ok |-> FALSE, err |-> err])
    /\ lastErr' = err
    /\ ctxElapsed' = dur
    /\ IF ~IsRetryableError(err)
       THEN /\ rcReturn' = [response |-> NoResponse, err |-> <<"non-retryable error", err>>]
            /\ rcPc' = "returned"
            /\ UNCHANGED delay
       ELSE IF attempt = retryConfig.MaxRetries
       THEN /\ rcReturn' = [response |-> NoResponse,
                            err |-> <<"max retries exceeded, last error", err>>]
            /\ rcPc' = "returned"
            /\ UNCHANGED delay
       ELSE /\ delay' = calculateDelay(retryConfig, attempt, nowSec)
            /\ rcPc' = "wait"
            /\ UNCHANGED rcReturn
    /\ UNCHANGED <<callbacks, taskCancelled, retryConfig, nowSec, attempt>>

\* select: time.After(delay) fires before the attempt's context expires
DelayElapses ==
    /\ rcPc = "wait"
    /\ ctxElapsed + delay <= AttemptTimeout
    /\ attempt' = attempt + 1
    /\ IF attempt + 1 <= retryConfig.MaxRetries
       THEN /\ rcPc' = "call"
            /\ UNCHANGED rcReturn
       ELSE /\ rcPc' = "returned"
            /\ rcReturn' = [response |-> NoResponse,
                            err |-> <<"unexpected retry loop exit", lastErr>>]
    /\ ctxElapsed' = 0
    /\ UNCHANGED <<callbacks, taskCancelled, retryConfig, nowSec, lastErr, delay, gwLog>>

\* select: the attempt's context expires before the delay has elapsed
ContextDone ==
    /\ rcPc = "wait"
    /\ ctxElapsed + delay >= AttemptTimeout
    /\ rcReturn' = [response |-> NoResponse,
                    err |-> <<"context cancelled during retry", "deadline exceeded">>]
    /\ rcPc' = "returned"
    /\ UNCHANGED <<callbacks, taskCancelled, retryConfig, nowSec, attempt, lastErr, ctxElapsed, delay, gwLog>>

\* the caller cancels the context it handed to Run while Chat waits between two
\* attempts; Chat has no context parameter, its own context derives from Background
CancelTask ==
    /\ rcPc = "wait"
    /\ ~taskCancelled
    /\ taskCancelled' = TRUE
    /\ UNCHANGED <<callbacks, retryConfig, nowSec, rcPc, attempt, lastErr, ctxElapsed, delay, rcReturn, gwLog>>

RetryNext ==
    \/ RetryChat
    \/ CancelTask
    \/ \E resp \in RetryResponses, dur \in CallDurations : ClientAnswers(resp, dur)
    \/ \E err \in ClientErrors, dur \in CallDurations : ClientFails(err, dur)
    \/ DelayElapses
    \/ ContextDone

\* ----------------------------------------------------------- response cache
cacheVars == <<cacheConfig, clock, cache, stats, mutex, g, opsStarted, okCalls>>

\* the goroutines that call into the cache, and the cleanupWorker goroutine
Procs == {"g1", "g2"}
Sweeper == "sweeper"

\* the messages stored in the cache: final answers of the gateway
CacheMessages == {m \in GatewayResponses(1) : Len(m.ToolCalls) = 0}

\* ---- cache keys: generateCacheKey
\* a request message as far as json.Marshal sees it; Metadata "none" is a nil
\* map (omitted from the JSON), "chan" a map holding a value json cannot encode
KeyMessage(role, content, metadata) == [Role |-> role, Content |-> content, Metadata |-> metadata]

CanMarshal(req) ==
    \A i \in 1..Len(req.Messages) : req.Messages[i].Metadata # "chan"

RECURSIVE MarshalMessages(_)
MarshalMessages(msgs) ==
    IF Len(msgs) = 0 THEN <<>>
    ELSE <<"{", "role", Head(msgs).Role, "content", Head(msgs).Content>>
         \o (IF Head(msgs).Metadata = "none" THEN <<>> ELSE <<"metadata", Head(msgs).Metadata>>)
         \o <<"}">> \o MarshalMessages(Tail(msgs))

\* json.Marshal(cacheData): the JSON text as a sequence of tokens
Marshal(req) ==
    <<"messages", "[">> \o MarshalMessages(req.Messages) \o <<"]", "tools", "[">>
    \o req.Tools \o <<"]", "model", req.Model, "provider", req.Provider>>

\* sha256.Sum256 printed in hex, taken as collision-free
Sha256(text) == <<"sha256">> \o text

generateCacheKey(req, day) ==
    IF CanMarshal(req)
    THEN Sha256(Marshal(req))
    ELSE <<req.Model, "-", req.Provider, "-", day>>

Days == {"2026-01-01", "2026-01-02"}

\* the requests sent through one CachedLLMClient
CacheRequests ==
    { [Messages |-> <<KeyMessage("user", c, "none")>>, Tools |-> <<"bash">>,
       Model |-> "gpt-4", Provider |-> "openai"] : c \in {"Hello", "World"} }

NoRequest == [Messages |-> <<>>, Tools |-> <<>>, Model |-> "", Provider |-> ""]

\* the empty string is a key like any other for MemoryCache
EmptyKey == <<>>

Keys == {EmptyKey} \cup {generateCacheKey(r, "2026-01-01") : r \in CacheRequests}

\* ---- MemoryCache
\* a float64 quotient, kept as the fraction it was computed from
Ratio(num, den) == <<num, den>>

NoEntry == [Response |-> NoResponse, Timestamp |-> -1, Expiration |-> -1, HitCount |-> 0]

StoredKeys(c) == {k \in Keys : c[k] # NoEntry}

NoRet == [ok |-> FALSE, msg |-> NoResponse, err |-> "", fromCache |-> FALSE]

IdleFrame == [pc |-> "idle", op |-> "none", key |-> EmptyKey, val |-> NoResponse,
              tmp |-> <<0, 0>>, ret |-> NoRet, req |-> NoRequest]

CacheConfigs == [MaxSize : 1..MaxCacheSize, TTL : {1}]

\* NewMemoryCache, wrapped by NewCachedLLMClient
CacheInit ==
    /\ cacheConfig \in CacheConfigs
    /\ clock = 0
    /\ cache = [k \in Keys |-> NoEntry]
    /\ stats = [Hits |-> 0, Misses |-> 0, Evictions |-> 0, Size |-> 0, HitRate |-> Ratio(0, 1)]
    /\ mutex = [writer |-> "none", readers |-> {}]
    /\ g = [p \in Procs \cup {Sweeper} |-> IdleFrame]
    /\ opsStarted = 0
    /\ okCalls = [r \in CacheRequests |-> 0]

\* sync.RWMutex
CanRLock == mutex.writer = "none"
CanLock == mutex.writer = "none" /\ mutex.readers = {}
RLocked(p) == [mutex EXCEPT !.readers = @ \cup {p}]
RUnlocked(p) == [mutex EXCEPT !.readers = @ \ {p}]
Locked(p) == [mutex EXCEPT !.writer = p]
Unlocked == [mutex EXCEPT !.writer = "none"]

\* the date time.Now() shows at a tick of the clock
DayOf(t) == IF t <= 1 THEN "2026-01-01" ELSE "2026-01-02"

\* okCalls once the entries of the keys in gone have left the cache
Forget(calls, gone) ==
    [r \in CacheRequests |->
        IF generateCacheKey(r, DayOf(clock)) \in gone THEN 0 ELSE calls[r]]

\* Get up to its first counter update: RLock, the map lookup and the expiry test,
\* then either the read of Misses, or the read of HitCount and Hits, or (expired
\* entry) RUnlock on the way to the write lock
GetEnter(p, frame) ==
    /\ CanRLock
    /\ LET entry == cache[frame.key] IN
         IF entry = NoEntry
         THEN /\ g' = [g EXCEPT ![p] = [frame EXCEPT !.pc = "get_miss_store",
                                                     !.tmp = <<stats.Misses, 0>>]]
              /\ mutex' = RLocked(p)
         ELSE IF clock > entry.Expiration
         THEN /\ g' = [g EXCEPT ![p] = [frame EXCEPT !.pc = "get_exp_lock"]]
              /\ UNCHANGED mutex
         ELSE /\ g' = [g EXCEPT ![p] = [frame EXCEPT !.pc = "get_hit_store",
                                                     !.tmp = <<entry.HitCount, stats.Hits>>]]
              /\ mutex' = RLocked(p)

\* a foreground goroutine may enter one more operation of the cache
CanBegin(p) ==
    /\ g[p].pc = "idle"
    /\ opsStarted < MaxCacheOps

OpFrame(op, k, val, req) == [IdleFrame EXCEPT !.op = op, !.key = k, !.val = val, !.req = req]

\* MemoryCache.Get(k) is called
StartGet(p, k) ==
    /\ CanBegin(p)
    /\ opsStarted' = opsStarted + 1
    /\ GetEnter(p, OpFrame("Get", k, NoResponse, NoRequest))
    /\ UNCHANGED <<cacheConfig, clock, cache, stats, okCalls>>

\* CachedLLMClient.Chat(req) is called: the key is generated and cache.Get entered
StartChat(p, req) ==
    /\ CanBegin(p)
    /\ opsStarted' = opsStarted + 1
    /\ GetEnter(p, OpFrame("Chat", generateCacheKey(req, DayOf(clock)), NoResponse, req))
    /\ UNCHANGED <<cacheConfig, clock, cache, stats, okCalls>>

\* Get, expired entry: Lock
GetExpLock(p) ==
    /\ g[p].pc = "get_exp_lock"
    /\ CanLock
    /\ mutex' = Locked(p)
    /\ g' = [g EXCEPT ![p].pc = "get_exp_delete"]
    /\ UNCHANGED <<cacheConfig, clock, cache, stats, opsStarted, okCalls>>

\* Get, expired entry: delete, Size--, Evictions++, Unlock
GetExpDelete(p) ==
    /\ g[p].pc = "get_exp_delete"
    /\ cache' = [cache EXCEPT ![g[p].key] = NoEntry]
    /\ stats' = [stats EXCEPT !.Size = @ - 1, !.Evictions = @ + 1]
    /\ okCalls' = Forget(okCalls, {g[p].key})
    /\ mutex' = Unlocked
    /\ g' = [g EXCEPT ![p].pc = "get_exp_rlock"]
    /\ UNCHANGED <<cacheConfig, clock, opsStarted>>

\* Get, expired entry: RLock again and the read of Misses (tmp[2] = 1 marks the
\* increment of the expired branch)
GetExpRLock(p) ==
    /\ g[p].pc = "get_exp_rlock"
    /\ CanRLock
    /\ mutex' = RLocked(p)
    /\ g' = [g EXCEPT ![p].pc = "get_miss_store", ![p].tmp = <<stats.Misses, 1>>]
    /\ UNCHANGED <<cacheConfig, clock, cache, stats, opsStarted, okCalls>>

\* Get: the write of Misses (mc.stats.Misses++ under the read lock), RUnlock,
\* return nil, false; CachedLLMClient.Chat goes on to the wrapped client
GetMissStore(p) ==
    /\ g[p].pc = "get_miss_store"
    /\ stats' = [stats EXCEPT !.Misses = g[p].tmp[1] + 1]
    /\ mutex' = RUnlocked(p)
    /\ g' = [g EXCEPT ![p].pc = IF g[p].op = "Chat" THEN "chat_call" ELSE "return",
                      ![p].tmp = <<0, 0>>, ![p].ret = NoRet]
    /\ UNCHANGED <<cacheConfig, clock, cache, opsStarted, okCalls>>

\* Get: the writes of HitCount and Hits (entry.HitCount++, mc.stats.Hits++ under
\* the read lock), HitRate computed from the counters, RUnlock, return
\* entry.Response, true; CachedLLMClient.Chat returns the cached message
GetHitStore(p) ==
    /\ g[p].pc = "get_hit_store"
    /\ cache' = [cache EXCEPT ![g[p].key].HitCount = g[p].tmp[1] + 1]
    /\ stats' = [stats EXCEPT !.Hits = g[p].tmp[2] + 1,
                              !.HitRate = Ratio(g[p].tmp[2] + 1, g[p].tmp[2] + 1 + stats.Misses)]
    /\ mutex' = RUnlocked(p)
    /\ g' = [g EXCEPT ![p].pc = "return", ![p].tmp = <<0, 0>>,
                      ![p].ret = [ok |-> TRUE, msg |-> cache[g[p].key].Response, err |-> "",
                                  fromCache |-> TRUE]]
    /\ UNCHANGED <<cacheConfig, clock, opsStarted, okCalls>>

\* Set, Delete, Clear are called and take the write lock
StartWrite(p, op, k, m) ==
    /\ CanBegin(p)
    /\ opsStarted' = opsStarted + 1
    /\ CanLock
    /\ mutex' = Locked(p)
    /\ g' = [g EXCEPT ![p] = [OpFrame(op, k, m, NoRequest) EXCEPT !.pc = "body"]]
    /\ UNCHANGED <<cacheConfig, clock, cache, stats, okCalls>>

StartSet(p, k, m) == StartWrite(p, "Set", k, m)

StartDelete(p, k) == StartWrite(p, "Delete", k, NoResponse)

StartClear(p) == StartWrite(p, "Clear", EmptyKey, NoResponse)

\* CachedLLMClient.Chat: cache.Set takes the write lock
ChatSetLock(p) ==
    /\ g[p].pc = "lock"
    /\ CanLock
    /\ mutex' = Locked(p)
    /\ g' = [g EXCEPT ![p].pc = "body"]
    /\ UNCHANGED <<cacheConfig, clock, cache, stats, opsStarted, okCalls>>

\* the entries evictLRU may pick: one of those with the earliest Timestamp
\* (the map is walked in an unspecified order)
OldestKeys(c) ==
    {k \in StoredKeys(c) : \A j \in StoredKeys(c) : c[k].Timestamp <= c[j].Timestamp}

\* evictLRU with oldestKey = k: the entry is deleted unless its key is ""
evictLRU(c, k) == IF k # EmptyKey THEN [c EXCEPT ![k] = NoEntry] ELSE c

\* Set under the write lock: evict when full, store the entry, Size = len, Unlock
\* (CachedLLMClient.Chat then returns the response it stored)
SetBody(p) ==
    /\ g[p].pc = "body"
    /\ g[p].op \in {"Set", "Chat"}
    /\ LET full == Cardinality(StoredKeys(cache)) >= cacheConfig.MaxSize
           entry == [Response |-> g[p].val, Timestamp |-> clock,
                     Expiration |-> clock + cacheConfig.TTL, HitCount |-> 0]
       IN \E victim \in (IF full THEN OldestKeys(cache) ELSE {g[p].key}) :
            LET afterEvict == IF full THEN evictLRU(cache, victim) ELSE cache
                evicted == StoredKeys(cache) \ StoredKeys(afterEvict)
            IN /\ cache' = [afterEvict EXCEPT ![g[p].key] = entry]
               /\ stats' = [stats EXCEPT !.Evictions = @ + Cardinality(evicted),
                                         !.Size = Cardinality(StoredKeys(cache'))]
               /\ okCalls' = Forget(okCalls, evicted \ {g[p].key})
    /\ mutex' = Unlocked
    /\ g' = [g EXCEPT ![p].pc = "return",
                      ![p].ret = [ok |-> TRUE,
                                  msg |-> IF g[p].op = "Chat" THEN g[p].val ELSE NoResponse,
                                  err |-> "", fromCache |-> FALSE]]
    /\ UNCHANGED <<cacheConfig, clock, opsStarted>>

\* Delete under the write lock
DeleteBody(p) ==
    /\ g[p].pc = "body"
    /\ g[p].op = "Delete"
    /\ IF cache[g[p].key] # NoEntry
       THEN /\ cache' = [cache EXCEPT ![g[p].key] = NoEntry]
            /\ stats' = [stats EXCEPT !.Size = Cardinality(StoredKeys(cache'))]
            /\ okCalls' = Forget(okCalls, {g[p].key})
       ELSE UNCHANGED <<cache, stats, okCalls>>
    /\ mutex' = Unlocked
    /\ g' = [g EXCEPT ![p].pc = "return", ![p].ret = [NoRet EXCEPT !.ok = TRUE]]
    /\ UNCHANGED <<cacheConfig, clock, opsStarted>>

\* Clear under the write lock
ClearBody(p) ==
    /\ g[p].pc = "body"
    /\ g[p].op = "Clear"
    /\ cache' = [k \in Keys |-> NoEntry]
    /\ stats' = [Hits |-> 0, Misses |-> 0, Evictions |-> 0, Size |-> 0, HitRate |-> Ratio(0, 1)]
    /\ okCalls' = Forget(okCalls, StoredKeys(cache))
    /\ mutex' = Unlocked
    /\ g' = [g EXCEPT ![p].pc = "return", ![p].ret = [NoRet EXCEPT !.ok = TRUE]]
    /\ UNCHANGED <<cacheConfig, clock, opsStarted>>

\* cleanupWorker: the ticker fires, Cleanup is entered and takes the write lock
StartCleanup ==
    /\ g[Sweeper].pc = "idle"
    /\ CanLock
    /\ mutex' = Locked(Sweeper)
    /\ g' = [g EXCEPT ![Sweeper] = [IdleFrame EXCEPT !.pc = "body", !.op = "Cleanup"]]
    /\ UNCHANGED <<cacheConfig, clock, cache, stats, opsStarted, okCalls>>

\* variant: Cleanup also deletes the entries that expire at this very instant
CleanupBody_AtExpiry ==
    /\ g[Sweeper].pc = "body"
    /\ LET expired == {k \in StoredKeys(cache) : clock >= cache[k].Expiration} IN
         /\ cache' = [k \in Keys |-> IF k \in expired THEN NoEntry ELSE cache[k]]
         /\ stats' = [stats EXCEPT !.Evictions = @ + Cardinality(expired),
                                   !.Size = Cardinality(StoredKeys(cache'))]
         /\ okCalls' = Forget(okCalls, expired)
    /\ mutex' = Unlocked
    /\ g' = [g EXCEPT ![Sweeper] = IdleFrame]
    /\ UNCHANGED <<cacheConfig, clock, opsStarted>>

\* Cleanup under the write lock: every expired entry is deleted and counted
CleanupBody ==
    /\ g[Sweeper].pc = "body"
    /\ LET expired == {k \in StoredKeys(cache) : clock > cache[k].Expiration} IN
         /\ cache' = [k \in Keys |-> IF k \in expired THEN NoEntry ELSE cache[k]]
         /\ stats' = [stats EXCEPT !.Evictions = @ + Cardinality(expired),
                                   !.Size = Cardinality(StoredKeys(cache'))]
         /\ okCalls' = Forget(okCalls, expired)
    /\ mutex' = Unlocked
    /\ g' = [g EXCEPT ![Sweeper] = IdleFrame]
    /\ UNCHANGED <<cacheConfig, clock, opsStarted>>

\* CachedLLMClient.Chat after a miss: the wrapped client answers, cache.Set is entered
ChatClientAnswers(p, resp) ==
    /\ g[p].pc = "chat_call"
    /\ okCalls' = [okCalls EXCEPT ![g[p].req] = @ + 1]
    /\ g' = [g EXCEPT ![p].pc = "lock", ![p].val = resp]
    /\ UNCHANGED <<cacheConfig, clock, cache, stats, mutex, opsStarted>>

\* variant: the failure of the wrapped client is stored like an answer
ChatClientFails_CachesError(p, err) ==
    /\ g[p].pc = "chat_call"
    /\ g' = [g EXCEPT ![p].pc = "lock", ![p].val = NoResponse]
    /\ UNCHANGED <<cacheConfig, clock, cache, stats, mutex, opsStarted, okCalls>>

\* CachedLLMClient.Chat after a miss: the wrapped client fails, the error is returned
ChatClientFails(p, err) ==
    /\ g[p].pc = "chat_call"
    /\ g' = [g EXCEPT ![p].pc = "return", ![p].ret = [NoRet EXCEPT !.err = err]]
    /\ UNCHANGED <<cacheConfig, clock, cache, stats, mutex, opsStarted, okCalls>>

\* the operation has returned to its caller
Return(p) ==
    /\ g[p].pc = "return"
    /\ g' = [g EXCEPT ![p] = IdleFrame]
    /\ UNCHANGED <<cacheConfig, clock, cache, stats, mutex, opsStarted, okCalls>>

\* time passes
Tick ==
    /\ clock < MaxTime
    /\ clock' = clock + 1
    /\ UNCHANGED <<cacheConfig, cache, stats, mutex, g, opsStarted, okCalls>>

CacheNext ==
    \/ \E p \in Procs :
         \/ \E k \in Keys : StartGet(p, k)
         \/ \E k \in Keys, m \in CacheMessages : StartSet(p, k, m)
         \/ \E k \in Keys : StartDelete(p, k)
         \/ StartClear(p)
         \/ \E req \in CacheRequests : StartChat(p, req)
         \/ GetExpLock(p)
         \/ GetExpDelete(p)
         \/ GetExpRLock(p)
         \/ GetMissStore(p)
         \/ GetHitStore(p)
         \/ \E resp \in CacheMessages : ChatClientAnswers(p, resp)
         \/ \E err \in GatewayErrors : ChatClientFails(p, err)
         \/ ChatSetLock(p)
         \/ SetBody(p)
         \/ DeleteBody(p)
         \/ ClearBody(p)
         \/ Return(p)
    \/ StartCleanup
    \/ CleanupBody
    \/ Tick

\* a cache nobody has used, under the smallest configuration of the model
CacheIdle ==
    /\ CacheInit
    /\ cacheConfig = [MaxSize |-> 1, TTL |-> 1]

\* ---- two calls of generateCacheKey
keyVars == <<keyReq, keyDay, keyOut>>

KeyCalls == {"a", "b"}

KeyMessages == {KeyMessage("user", "Hello", "none"), KeyMessage("user", "World", "none"),
                KeyMessage("user", "Hello", "chan")}

\* requests of one or two messages, with or without a tool
KeyRequests ==
    [Messages : {<<m>> : m \in KeyMessages} \cup {<<m, n>> : m, n \in KeyMessages},
     Tools : {<<>>, <<"bash">>},
     Model : {"gpt-4", "doubao-pro"},
     Provider : {"openai", "doubao"}]

NoKey == <<"no key yet">>

KeyInit ==
    /\ keyReq \in [KeyCalls -> KeyRequests]
    /\ keyDay \in [KeyCalls -> Days]
    /\ keyOut = [c \in KeyCalls |-> NoKey]

\* one call of generateCacheKey
GenerateKey(c) ==
    /\ keyOut[c] = NoKey
    /\ keyOut' = [keyOut EXCEPT ![c] = generateCacheKey(keyReq[c], keyDay[c])]
    /\ UNCHANGED <<keyReq, keyDay>>

KeyNext == \E c \in KeyCalls : GenerateKey(c)

\* no key was asked for
KeyIdle ==
    /\ keyReq = [c \in KeyCalls |-> NoRequest]
    /\ keyDay = [c \in KeyCalls |-> "2026-01-01"]
    /\ keyOut = [c \in KeyCalls |-> NoKey]

\* -------------------------------------------------------------------- tools
\* the built-in tools (pkg/tools): one Execute call at a time on one instance of each
toolVars == <<execCall, toolRet, btTimeout, files, cmdRuns, stdout, toolRuns>>

\* a JSON argument value, or the absence of the argument
NoArg == [type |-> "absent", s |-> "", n |-> 0, b |-> FALSE]

Str(x) == [type |-> "string", s |-> x, n |-> 0, b |-> FALSE]

Num(x) == [type |-> "number", s |-> "", n |-> x, b |-> FALSE]

Bool(x) == [type |-> "boolean", s |-> "", n |-> 0, b |-> x]

\* the Go type a declared parameter type stands for
JSONType(declared) == IF declared = "integer" THEN "number" ELSE declared

\* the parameters each tool declares, in declaration order
ToolParameters(tool) ==
    IF tool = "bash"
    THEN << [Name |-> "command", Type |-> "string",  Required |-> TRUE],
            [Name |-> "timeout", Type |-> "integer", Required |-> FALSE] >>
    ELSE IF tool = "edit_file"
    THEN << [Name |-> "file_path", Type |-> "string",  Required |-> TRUE],
            [Name |-> "content",   Type |-> "string",  Required |-> TRUE],
            [Name |-> "mode",      Type |-> "string",  Required |-> FALSE],
            [Name |-> "backup",    Type |-> "boolean", Required |-> FALSE] >>
    ELSE IF tool = "task_done"
    THEN << [Name |-> "summary", Type |-> "string",  Required |-> TRUE],
            [Name |-> "success", Type |-> "boolean", Required |-> TRUE],
            [Name |-> "output",  Type |-> "string",  Required |-> FALSE] >>
    ELSE << [Name |-> "thought",     Type |-> "string",  Required |-> TRUE],
            [Name |-> "step_number", Type |-> "integer", Required |-> TRUE],
            [Name |-> "total_steps", Type |-> "integer", Required |-> FALSE] >>

NoToolErr == [Code |-> 0, Message |-> <<>>]

ToolError(code, message) == [Code |-> code, Message |-> message]

NilResult == [nil |-> TRUE, CallID |-> "", Name |-> "", Success |-> FALSE,
              Result |-> <<>>, Error |-> <<>>]

\* &ToolResult{Success: ..., Result: ..., Error: ...}: CallID and Name stay empty
ToolResult(success, result, error) ==
    [nil |-> FALSE, CallID |-> "", Name |-> "", Success |-> success,
     Result |-> result, Error |-> error]

Failed(err) == [err |-> err, result |-> NilResult]

Returned(result) == [err |-> NoToolErr, result |-> result]

NoToolRet == Failed(NoToolErr)

NoToolCall == [tool |-> "", args |-> <<>>]

TrimSpace(x) == IF x = " " THEN "" ELSE x

\* the paths strings.Contains(path, "..") holds of
DotDotPaths == {"../f"}

\* BaseTool.ValidateArgs: the first required parameter that is missing
BaseTool_ValidateArgs(tool, args) ==
    LET params  == ToolParameters(tool)
        missing == {i \in 1..Len(params) :
                       params[i].Required /\ args[params[i].Name] = NoArg}
    IN  IF missing = {} THEN NoToolErr
        ELSE LET i == CHOOSE j \in missing : \A k \in missing : j <= k
             IN  ToolError(400, <<"required parameter is missing", params[i].Name>>)

BashTool_ValidateArgs(args) ==
    LET err == BaseTool_ValidateArgs("bash", args) IN
    IF err # NoToolErr THEN err
    ELSE IF args.command # NoArg /\ args.command.type = "string"
                                 /\ TrimSpace(args.command.s) = ""
    THEN ToolError(400, <<"command cannot be empty">>)
    ELSE IF args.command # NoArg /\ args.command.type # "string"
    THEN ToolError(400, <<"command must be a string">>)
    ELSE NoToolErr

DefaultBashTimeout == 120

\* how the command started by BashTool.Execute ends
CmdOutcomes == [kind : {"ok", "failed", "timeout"}, output : {"", "out"}]

BashArgs ==
    [command : {NoArg, Str("echo"), Str(" "), Num(1)},
     timeout : {NoArg, Num(10), Str("10")}]

ToolInit ==
    /\ execCall = NoToolCall
    /\ toolRet = NoToolRet
    /\ btTimeout = DefaultBashTimeout
    /\ files \in { [p \in {"f", "f.backup"} |->
                       [exists |-> (p = "f" /\ e), data |-> IF p = "f" /\ e THEN <<"old">> ELSE <<>>]] :
                   e \in BOOLEAN }
    /\ cmdRuns = <<>>
    /\ stdout = <<>>
    /\ toolRuns = 0

BashTool_Execute(args, out) ==
    /\ toolRuns < MaxToolRuns
    /\ toolRuns' = toolRuns + 1
    /\ execCall' = [tool |-> "bash", args |-> args]
    /\ LET err == BashTool_ValidateArgs(args)
           timeout == IF args.timeout # NoArg /\ args.timeout.type = "number"
                      THEN args.timeout.n ELSE btTimeout
           outputStr == TrimSpace(out.output)
       IN IF err # NoToolErr
          THEN /\ toolRet' = Failed(err)
               /\ UNCHANGED <<btTimeout, cmdRuns>>
          ELSE IF args.command.type # "string"
          THEN /\ toolRet' = Failed(ToolError(400, <<"command parameter must be a string">>))
               /\ UNCHANGED <<btTimeout, cmdRuns>>
          ELSE /\ btTimeout' = timeout
               /\ cmdRuns' = Append(cmdRuns, args.command.s)
               /\ toolRet' =
                    IF out.kind = "timeout"
                    THEN Returned(ToolResult(FALSE, <<>>, <<"command timed out after", timeout>>))
                    ELSE IF out.kind = "failed"
                    THEN Returned(ToolResult(FALSE,
                                  IF outputStr = "" THEN <<"command failed, no output">>
                                  ELSE <<outputStr>>,
                                  <<"exit status 1">>))
                    ELSE Returned(ToolResult(TRUE,
                                  IF outputStr = "" THEN <<"command succeeded, no output">>
                                  ELSE <<outputStr>>,
                                  <<>>))
    /\ UNCHANGED <<files, stdout>>

EditTool_ValidateArgs(args) ==
    LET err == BaseTool_ValidateArgs("edit_file", args) IN
    IF err # NoToolErr THEN err
    ELSE IF args.file_path # NoArg /\ args.file_path.type # "string"
    THEN ToolError(400, <<"file_path must be a string">>)
    ELSE IF args.file_path # NoArg /\ TrimSpace(args.file_path.s) = ""
    THEN ToolError(400, <<"file_path cannot be empty">>)
    ELSE IF args.file_path # NoArg /\ args.file_path.s \in DotDotPaths
    THEN ToolError(400, <<"file_path cannot contain '..'">>)
    ELSE IF args.content # NoArg /\ args.content.type # "string"
    THEN ToolError(400, <<"content must be a string">>)
    ELSE IF args.mode # NoArg /\ args.mode.type # "string"
    THEN ToolError(400, <<"mode must be a string">>)
    ELSE IF args.mode # NoArg /\ args.mode.s \notin {"replace", "append"}
    THEN ToolError(400, <<"mode must be either 'replace' or 'append'">>)
    ELSE NoToolErr

EditArgs ==
    [file_path : {NoArg, Str("f"), Str(" "), Str("../f"), Num(1)},
     content   : {NoArg, Str("new"), Num(1)},
     mode      : {NoArg, Str("replace"), Str("append"), Str("other"), Num(1)},
     backup    : {NoArg, Bool(FALSE), Str("no")}]

\* the file operation of EditTool.Execute that fails, if any
IOFaults == {"none", "backup", "mkdir", "read", "write"}

BackupPath(filePath) == IF filePath = "f" THEN "f.backup" ELSE filePath

EditTool_Execute(args, fault) ==
    /\ toolRuns < MaxToolRuns
    /\ toolRuns' = toolRuns + 1
    /\ execCall' = [tool |-> "edit_file", args |-> args]
    /\ LET err == EditTool_ValidateArgs(args)
           filePath == args.file_path.s
           content == args.content.s
           mode == IF args.mode # NoArg /\ args.mode.type = "string"
                   THEN args.mode.s ELSE "replace"
           backup == IF args.backup # NoArg /\ args.backup.type = "boolean"
                     THEN args.backup.b ELSE TRUE
           fileExists == files[filePath].exists
           backedUp == IF backup /\ fileExists
                       THEN [files EXCEPT ![BackupPath(filePath)] = files[filePath]]
                       ELSE files
           finalContent == IF mode = "append" /\ fileExists
                           THEN files[filePath].data \o <<content>>
                           ELSE <<content>>
           resultMsg == (IF fileExists THEN <<"file changed", mode>> ELSE <<"file created">>)
                        \o (IF backup /\ fileExists THEN <<"backup created">> ELSE <<>>)
       IN IF err # NoToolErr
          THEN /\ toolRet' = Failed(err)
               /\ UNCHANGED files
          ELSE IF backup /\ fileExists /\ fault = "backup"
          THEN /\ toolRet' = Failed(ToolError(500, <<"failed to create backup">>))
               /\ UNCHANGED files
          ELSE IF fault = "mkdir"
          THEN /\ toolRet' = Failed(ToolError(500, <<"failed to create directory">>))
               /\ files' = backedUp
          ELSE IF mode = "append" /\ fileExists /\ fault = "read"
          THEN /\ toolRet' = Failed(ToolError(500, <<"failed to read existing file">>))
               /\ files' = backedUp
          ELSE IF mode \notin {"replace", "append"}
          THEN /\ toolRet' = Failed(ToolError(400, <<"unsupported mode">>))
               /\ files' = backedUp
          ELSE IF fault = "write"
          THEN /\ toolRet' = Failed(ToolError(500, <<"failed to write file">>))
               /\ files' = backedUp
          ELSE /\ toolRet' = Returned(ToolResult(TRUE, resultMsg, <<>>))
               /\ files' = [backedUp EXCEPT ![filePath] = [exists |-> TRUE, data |-> finalContent]]
    /\ UNCHANGED <<btTimeout, cmdRuns, stdout>>

TaskDoneArgs ==
    [summary : {NoArg, Str("all good"), Num(1)},
     success : {NoArg, Bool(TRUE), Bool(FALSE), Str("yes")},
     output  : {NoArg, Str("out"), Num(1)}]

TaskDoneTool_Execute(args) ==
    /\ toolRuns < MaxToolRuns
    /\ toolRuns' = toolRuns + 1
    /\ execCall' = [tool |-> "task_done", args |-> args]
    /\ LET err == BaseTool_ValidateArgs("task_done", args)
           output == IF args.output # NoArg /\ args.output.type = "string"
                     THEN args.output.s ELSE ""
           result == <<(IF args.success.b THEN "done" ELSE "not done"), args.summary.s>>
                     \o (IF output # "" THEN <<output>> ELSE <<>>)
       IN IF err # NoToolErr
          THEN /\ toolRet' = Failed(err)
               /\ UNCHANGED stdout
          ELSE IF args.summary.type # "string"
          THEN /\ toolRet' = Failed(ToolError(400, <<"summary parameter must be a string">>))
               /\ UNCHANGED stdout
          ELSE IF args.success.type # "boolean"
          THEN /\ toolRet' = Failed(ToolError(400, <<"success parameter must be a boolean">>))
               /\ UNCHANGED stdout
          ELSE /\ stdout' = Append(stdout, result)
               /\ toolRet' = Returned(ToolResult(TRUE, result, <<>>))
    /\ UNCHANGED <<btTimeout, files, cmdRuns>>

ThinkingArgs ==
    [thought     : {NoArg, Str("hm"), Num(1)},
     step_number : {NoArg, Num(1), Str("1")},
     total_steps : {NoArg, Num(2), Str("2")}]

SequentialThinkingTool_Execute(args) ==
    /\ toolRuns < MaxToolRuns
    /\ toolRuns' = toolRuns + 1
    /\ execCall' = [tool |-> "sequential_thinking", args |-> args]
    /\ LET err == BaseTool_ValidateArgs("sequential_thinking", args)
           totalSteps == IF args.total_steps # NoArg /\ args.total_steps.type = "number"
                         THEN <<args.total_steps.n>> ELSE <<>>
           output == <<"thinking step", args.step_number.n>> \o totalSteps \o <<args.thought.s>>
       IN IF err # NoToolErr
          THEN /\ toolRet' = Failed(err)
               /\ UNCHANGED stdout
          ELSE IF args.thought.type # "string"
          THEN /\ toolRet' = Failed(ToolError(400, <<"thought parameter must be a string">>))
               /\ UNCHANGED stdout
          ELSE IF args.step_number.type # "number"
          THEN /\ toolRet' = Failed(ToolError(400, <<"step_number parameter must be a number">>))
               /\ UNCHANGED stdout
          ELSE /\ stdout' = Append(stdout, output)
               /\ toolRet' = Returned(ToolResult(TRUE, output, <<>>))
    /\ UNCHANGED <<btTimeout, files, cmdRuns>>

ToolNext ==
    \/ \E args \in BashArgs, out \in CmdOutcomes : BashTool_Execute(args, out)
    \/ \E args \in EditArgs, fault \in IOFaults : EditTool_Execute(args, fault)
    \/ \E args \in TaskDoneArgs : TaskDoneTool_Execute(args)
    \/ \E args \in ThinkingArgs : SequentialThinkingTool_Execute(args)

\* the tools before any Execute call
ToolIdle ==
    /\ ToolInit
    /\ files["f"].exists

\* --------------------------------------------------------- specifications
vars == <<agentVars, retryVars, cacheVars, keyVars, toolVars>>

\* the retry wrapper before any Chat, under the default configuration
RetryIdle ==
    /\ retryConfig = [MaxRetries |-> 3, BaseDelay |-> 1000, MaxDelay |-> 30000, BackoffRate |-> 2]
    /\ nowSec = 1700000000
    /\ rcPc = "idle"
    /\ attempt = 0
    /\ lastErr = NoError
    /\ ctxElapsed = 0
    /\ delay = 0
    /\ rcReturn = NoReturn
    /\ gwLog = <<>>
    /\ taskCancelled = FALSE
    /\ callbacks = [before |-> 0, after |-> 0]

\* an agent on which no task has been run
AgentIdle ==
    /\ AgentInit
    /\ maxSteps = 0

Init == AgentInit /\ RetryIdle /\ CacheIdle /\ KeyIdle /\ ToolIdle

Next == AgentNext /\ UNCHANGED <<retryVars, cacheVars, keyVars, toolVars>>

\* one agent instance running tasks
Spec == Init /\ [][Next]_vars

\* the same, with every call made by a run returning and the run going on
LiveSpec ==
    Spec /\ WF_vars(AgentStep /\ UNCHANGED <<retryVars, cacheVars, keyVars, toolVars>>)

RetrySpecInit == RetryInit /\ AgentIdle /\ CacheIdle /\ KeyIdle /\ ToolIdle

RetrySpecNext == RetryNext /\ UNCHANGED <<agentVars, cacheVars, keyVars, toolVars>>

\* one Chat call through the retry wrapper
RetrySpec == RetrySpecInit /\ [][RetrySpecNext]_vars

CacheSpecInit == CacheInit /\ AgentIdle /\ RetryIdle /\ KeyIdle /\ ToolIdle

CacheSpecNext == CacheNext /\ UNCHANGED <<agentVars, retryVars, keyVars, toolVars>>

\* goroutines using one MemoryCache, directly and through one CachedLLMClient,
\* next to its cleanupWorker
CacheSpec == CacheSpecInit /\ [][CacheSpecNext]_vars

KeySpecInit == KeyInit /\ AgentIdle /\ RetryIdle /\ CacheIdle /\ ToolIdle

KeySpecNext == KeyNext /\ UNCHANGED <<agentVars, retryVars, cacheVars, toolVars>>

\* two calls of generateCacheKey on arbitrary requests
KeySpec == KeySpecInit /\ [][KeySpecNext]_vars

ToolSpecInit == ToolInit /\ AgentIdle /\ RetryIdle /\ CacheIdle /\ KeyIdle

ToolSpecNext == ToolNext /\ UNCHANGED <<agentVars, retryVars, cacheVars, keyVars>>

\* Execute calls on the built-in tools, on arbitrary arguments
ToolSpec == ToolSpecInit /\ [][ToolSpecNext]_vars

\* ================================================================= claims
\* -- helpers over the observable history of the current run
GatewayFailed == \E k \in 1..Len(chatLog) : chatLog[k] # "ok"

\* the assistant messages the gateway answered in the current run, in order
RunResponses == SelectSeq(messages, LAMBDA m : m.Role = "assistant")

UnknownToolFound ==
    /\ Len(execution.Error) > 0
    /\ execution.Error[1] = "tool not found"

\* no model answer carried a completion keyword and no tool result did either
NoCompletionSignal ==
    /\ \A i \in 1..Len(RunResponses) : ~isTaskComplete(RunResponses[i].Content)
    /\ \A i \in 1..Len(execution.ToolResults) : ~isTaskComplete(execution.ToolResults[i].Result)

\* C1: with max_steps = 3 and a gateway that always answers and never signals
\* completion, the run returns with Success = false, a step-limit error in
\* Error, after exactly 3 model calls.
C1_StepLimitAfterThreeCalls ==
    (/\ pc = "returned"
     /\ ~runErr
     /\ maxSteps = 3
     /\ ~GatewayFailed
     /\ ~UnknownToolFound
     /\ NoCompletionSignal)
    => (/\ ~execution.Success
        /\ execution.Error = StepLimitError(maxSteps)
        /\ modelCalls = 3)

\* the run followed the script "one resolvable tool call, then a final answer
\* with a completion keyword" as far as it went
C2_Scripted ==
    /\ ~GatewayFailed
    /\ Len(RunResponses) \in 1..2
    /\ Len(RunResponses[1].ToolCalls) = 1
    /\ ToolRegistryGet(RunResponses[1].ToolCalls[1].Name)
    /\ Len(RunResponses) = 2 =>
          /\ Len(RunResponses[2].ToolCalls) = 0
          /\ isTaskComplete(RunResponses[2].Content)

\* C2: under that script and any max_steps >= 2, whatever the tool returns, the
\* run returns Success = true after exactly 2 model calls and 1 tool execution.
\* Stated for the tool results that carry no completion keyword, for which the
\* completion heuristic applied after the tool calls cannot end the run early.
C2_ScriptedRunSucceeds ==
    (/\ pc = "returned"
     /\ ~runErr
     /\ maxSteps >= 2
     /\ C2_Scripted
     /\ \A i \in 1..Len(execution.ToolResults) : ~isTaskComplete(execution.ToolResults[i].Result))
    => (execution.Success /\ modelCalls = 2 /\ toolExecs = 1)

\* C3: a failed Chat is the last model call of the run; the run has returned
\* with Success = false and Error carrying the gateway's error, every tool
\* result gathered so far is still in the execution, and from then on no model
\* call and no tool execution is made and the execution does not change (until
\* another task is run).
C3_GatewayFailureEndsRun ==
    /\ [](\A k \in 1..Len(chatLog) :
            chatLog[k] # "ok" =>
               /\ k = Len(chatLog)
               /\ pc = "returned"
               /\ ~execution.Success
               /\ execution.Error = LLMErrorMsg(chatLog[k])
               /\ Len(execution.ToolResults) = toolExecs)
    /\ [][GatewayFailed =>
             \/ runs' = runs + 1
             \/ UNCHANGED <<chatLog, toolExecs, execution>>]_vars

C3_Witness ==
    /\ pc = "returned"
    /\ GatewayFailed
    /\ modelCalls = 2
    /\ Len(execution.ToolResults) >= 1

\* C4: once an unknown tool reference has been found, no further model call
\* and no further tool execution is made, and the execution is not successful
\* and names the missing tool.
C4_UnknownToolEndsRun ==
    UnknownToolFound => (pc \notin {"chat", "tools"} /\ ~execution.Success)

\* the step that executes a tool whose Execute returns an error
ToolErrorStep ==
    /\ toolExecs' = toolExecs + 1
    /\ tracker'[Len(tracker')].Error # NoText

LastResultIsError ==
    /\ Len(tracker) > 0
    /\ tracker[Len(tracker)].Error # NoText

\* C5: executing a tool that returns an error does not end the run: a failed
\* ToolResult for that call is appended, the inner loop goes on to the next
\* tool call of the response if there is one, and after the last one the loop
\* calls the model again unless completion is detected or the budget is spent.
C5_ToolErrorDoesNotAbort ==
    [][/\ ToolErrorStep =>
            /\ pc' # "returned"
            /\ Len(execution'.ToolResults) = Len(execution.ToolResults) + 1
            /\ ~execution'.ToolResults[Len(execution'.ToolResults)].Success
            /\ execution'.ToolResults[Len(execution'.ToolResults)].CallID
                  = response.ToolCalls[tcIdx].ID
            /\ (tcIdx < Len(response.ToolCalls)) => (pc' = "tools" /\ tcIdx' = tcIdx + 1)
            /\ (tcIdx = Len(response.ToolCalls)) => pc' = "afterTools"
       /\ (pc = "afterTools" /\ LastResultIsError
              /\ ~shouldStopExecution(execution, stepCount)) => pc' = "loop"
       /\ (pc = "loop" /\ stepCount < maxSteps) => pc' = "chat"
      ]_vars

\* the model was called again after a tool error, and in that second iteration
\* the call after a failing one was executed too
C5_Witness ==
    /\ modelCalls = 2
    /\ Len(execution.ToolResults) = 3
    /\ execution.ToolResults[1].Error = <<"bad arguments">>
    /\ execution.ToolResults[2].Error = <<"bad arguments">>
    /\ ~execution.ToolResults[2].Success

\* C6: one loop iteration (one model call) moves the step counter by exactly
\* 1: whenever the loop is back at its head, the counter equals the number of
\* model calls made.
C6_OneStepPerIteration ==
    pc = "loop" => stepCount = modelCalls

\* C7: the step counter, and every step number assigned, never exceeds
\* max_steps, and the step numbers assigned are strictly increasing.
C7_StepCounterBounded ==
    /\ stepCount <= maxSteps
    /\ \A i \in 1..Len(stepLog) : stepLog[i] <= maxSteps
    /\ \A i \in 1..(Len(stepLog) - 1) : stepLog[i] < stepLog[i + 1]

\* -- retry wrapper
AllAttemptsFailedRetryably ==
    \A k \in 1..Len(gwLog) : ~gwLog[k].ok /\ IsRetryableError(gwLog[k].err)

\* C8: for max_retries = r >= 0 and a client failing every call with a
\* retryable error, Chat makes exactly r+1 calls and returns a nil response and
\* "max retries exceeded" wrapping the error of the last call.
C8_ExhaustsAfterRPlusOne ==
    (/\ rcPc = "returned"
     /\ retryConfig.MaxRetries >= 0
     /\ AllAttemptsFailedRetryably)
    => (/\ Len(gwLog) = retryConfig.MaxRetries + 1
        /\ rcReturn = [response |-> NoResponse,
                       err |-> <<"max retries exceeded, last error", gwLog[Len(gwLog)].err>>])

\* C9: a call that fails with a non-retryable error is the last call: Chat has
\* returned a nil response and "non-retryable error" wrapping that error, with
\* no wait after it; when it is the first call, exactly 1 call was made and
\* nothing was waited for, for every max_retries.
C9_NonRetryableReturnsAtOnce ==
    \A k \in 1..Len(gwLog) :
       (~gwLog[k].ok /\ ~IsRetryableError(gwLog[k].err)) =>
          /\ k = Len(gwLog)
          /\ rcPc = "returned"
          /\ attempt = k - 1
          /\ rcReturn = [response |-> NoResponse,
                         err |-> <<"non-retryable error", gwLog[k].err>>]

C9_Witness ==
    /\ rcPc = "returned"
    /\ retryConfig.MaxRetries >= 1
    /\ Len(gwLog) = 1
    /\ ~gwLog[1].ok
    /\ ~IsRetryableError(gwLog[1].err)
    /\ attempt = 0

\* C10: for a client that fails its first k <= max_retries calls with retryable
\* errors and then succeeds, Chat returns the successful response and no
\* error after exactly k+1 calls: a Chat that has returned after at most
\* max_retries calls, all of them retryable failures, contradicts this.
C10_SucceedsAfterKFailures ==
    (/\ rcPc = "returned"
     /\ retryConfig.MaxRetries >= 0
     /\ Len(gwLog) >= 1
     /\ \A k \in 1..(Len(gwLog) - 1) : ~gwLog[k].ok /\ IsRetryableError(gwLog[k].err)
     /\ Len(gwLog) - 1 <= retryConfig.MaxRetries
     /\ gwLog[Len(gwLog)].ok \/ (IsRetryableError(gwLog[Len(gwLog)].err)
                                  /\ Len(gwLog) <= retryConfig.MaxRetries))
    => (/\ gwLog[Len(gwLog)].ok
        /\ rcReturn.err = NoText
        /\ rcReturn.response \in RetryResponses)

\* the error types the retry policy names as not retryable
NonRetryableTypes == {"invalid_request", "authentication_error", "permission_error",
                      "quota_exceeded"}

\* C11: IsRetryableError is false exactly for the errors typed invalid_request,
\* authentication_error, permission_error or quota_exceeded, and true for every
\* other error (other types, untyped), whatever the message text: every failed
\* call of the wrapped client was classified by its type alone.
C11_RetryableByTypeOnly ==
    \A k \in 1..Len(gwLog) :
       ~gwLog[k].ok =>
          (IsRetryableError(gwLog[k].err)
              <=> ~(gwLog[k].err.typed /\ gwLog[k].err.Type \in NonRetryableTypes))

\* the delay the retry policy prescribes after failed attempt k, before jitter
NominalDelay(cfg, k) == Min(cfg.MaxDelay, cfg.BaseDelay * Pow(cfg.BackoffRate, k))

\* C13: the delay waited after failed attempt k lies within plus or minus 10%
\* of min(max_delay, base_delay * backoff_multiplier^k).
C13_DelayWithinTenPercent ==
    rcPc = "wait" =>
       /\ 10 * delay >= 9 * NominalDelay(retryConfig, attempt)
       /\ 10 * delay <= 11 * NominalDelay(retryConfig, attempt)

\* C12: once the task's context is cancelled, the retry decorator makes no
\* further call to the wrapped client, and a wait that is in progress ends with
\* Chat returning a cancellation error.
C12_CancellationStopsRetries ==
    [][taskCancelled =>
          /\ gwLog' = gwLog
          /\ rcPc = "wait" =>
                /\ rcPc' = "returned"
                /\ rcReturn'.err[1] = "context cancelled during retry"]_vars

\* -- response cache
\* C14: CachedLLMClient.Chat calls the wrapped client exactly when the lookup
\* of the request's key misses; the response of a successful call is stored
\* under that key and returned; a failed call stores nothing and returns the
\* error; what the cache holds and returns is always a response, never an error.
C14_GatewayCalledIffMiss ==
    /\ [](/\ \A k \in StoredKeys(cache) : cache[k].Response \in CacheMessages
          /\ \A p \in Procs : g[p].ret.fromCache => g[p].ret.ok)
    /\ [][\A p \in Procs : g[p].op = "Chat" =>
            /\ (g[p].pc = "get_hit_store" /\ g'[p].pc # g[p].pc) =>
                  /\ g'[p].pc = "return"
                  /\ g'[p].ret = [ok |-> TRUE, msg |-> cache[g[p].key].Response, err |-> "",
                                  fromCache |-> TRUE]
                  /\ okCalls' = okCalls
            /\ (g[p].pc = "get_miss_store" /\ g'[p].pc # g[p].pc) => g'[p].pc = "chat_call"
            /\ (g'[p].pc = "chat_call" /\ g[p].pc # "chat_call") => g[p].pc = "get_miss_store"
            /\ (g[p].pc = "chat_call" /\ g'[p].pc # g[p].pc) =>
                  \/ /\ g'[p].pc = "return"
                     /\ ~g'[p].ret.ok
                     /\ g'[p].ret.err \in GatewayErrors
                     /\ UNCHANGED <<cache, stats, okCalls>>
                  \/ /\ g'[p].pc = "lock"
                     /\ g'[p].val \in CacheMessages
                     /\ okCalls'[g[p].req] = okCalls[g[p].req] + 1
            /\ (g[p].pc = "body" /\ g'[p].pc # g[p].pc) =>
                  /\ g'[p].pc = "return"
                  /\ cache'[g[p].key].Response = g[p].val
                  /\ g'[p].ret = [ok |-> TRUE, msg |-> g[p].val, err |-> "",
                                  fromCache |-> FALSE]
         ]_vars

\* a Chat was answered from the cache after an earlier Chat had stored the answer
C14_Witness ==
    \E p \in Procs :
       /\ g[p].op = "Chat"
       /\ g[p].pc = "return"
       /\ g[p].ret.fromCache
       /\ okCalls[g[p].req] = 1
       /\ stats.Misses >= 1

\* C15: the wrapped client is called successfully at most once per distinct
\* request (here: for as long as the stored answer has not left the cache).
C15_AtMostOneCallPerRequest ==
    \A r \in CacheRequests : okCalls[r] <= 1

\* C17: a Get that finds the stored entry returns its message and moves Hits by
\* exactly 1 leaving Misses alone; a Get that finds no entry or an expired one
\* returns not-found and moves Misses by exactly 1 leaving Hits alone.
C17_GetCountsHitOrMiss ==
    [][\A p \in Procs : g[p].op = "Get" =>
          /\ (g[p].pc = "get_hit_store" /\ g'[p].pc # g[p].pc) =>
                /\ g'[p].ret.ok
                /\ g'[p].ret.msg = cache[g[p].key].Response
                /\ stats'.Hits = stats.Hits + 1
                /\ stats'.Misses = stats.Misses
          /\ (g[p].pc = "get_miss_store" /\ g'[p].pc # g[p].pc) =>
                /\ ~g'[p].ret.ok
                /\ stats'.Misses = stats.Misses + 1
                /\ stats'.Hits = stats.Hits
      ]_vars

\* C18: the number of stored entries never exceeds the configured MaxSize.
C18_SizeNeverExceedsMax ==
    Cardinality(StoredKeys(cache)) <= cacheConfig.MaxSize

\* the step in which goroutine p enters Get (directly or through Chat)
EntersGet(p) ==
    /\ g[p].pc = "idle"
    /\ g'[p].op \in {"Get", "Chat"}

\* C19: an entry stored at time s under TTL t is found by a Get at every time
\* before s+t and by no Get at a time at or after s+t.
C19_ReturnedExactlyBeforeExpiry ==
    [][\A p \in Procs :
          (EntersGet(p) /\ cache[g'[p].key] # NoEntry) =>
             (g'[p].pc = "get_hit_store"
                 <=> clock < cache[g'[p].key].Timestamp + cacheConfig.TTL)
      ]_vars

\* goroutine p is inside a section that writes the entry map, a hit counter or
\* the statistics
Modifying(p) == g[p].pc \in {"get_miss_store", "get_hit_store", "get_exp_delete", "body"}

\* C20: no two operations that modify the shared state of the cache are in
\* progress at the same time.
C20_ModificationsExclusive ==
    \A p, q \in Procs \cup {Sweeper} : (p # q /\ Modifying(p)) => ~Modifying(q)

\* C16: generateCacheKey returns the same key for two requests exactly when
\* they agree on the message sequence, the tool list, the model and the
\* provider.
C16_SameKeyIffSameRequest ==
    (keyOut["a"] # NoKey /\ keyOut["b"] # NoKey)
    => (keyOut["a"] = keyOut["b"] <=> keyReq["a"] = keyReq["b"])

\* -- tools
\* the arguments omit a required parameter or give a declared one a value of
\* another type than the declared one
InvalidArgs(tool, args) ==
    \E i \in 1..Len(ToolParameters(tool)) :
       LET param == ToolParameters(tool)[i] IN
         \/ param.Required /\ args[param.Name] = NoArg
         \/ args[param.Name] # NoArg /\ args[param.Name].type # JSONType(param.Type)

\* C21: an Execute call whose arguments omit a required parameter or give a
\* declared parameter a value of the wrong type returns a ToolError with code
\* 400 and runs no command, writes no file, prints nothing and leaves the
\* tool's state alone.
C21_InvalidArgsRejected ==
    [][(toolRuns' = toolRuns + 1 /\ InvalidArgs(execCall'.tool, execCall'.args))
          => (/\ toolRet'.err.Code = 400
              /\ toolRet'.result.nil
              /\ UNCHANGED <<btTimeout, files, cmdRuns, stdout>>)]_vars

\* -- agent loop, continued
\* C22: when the run started by the run command has ended without success, the
\* process exits with a non-zero exit code.
C22_FailedRunExitsNonZero ==
    (exitCode # NoExit /\ (runErr \/ ~execution.Success)) => exitCode # 0

Running == pc \in {"loop", "chat", "tools", "afterTools"}

\* C23: for every max_steps >= 1, whatever the gateway and the tools answer,
\* a run that has been started returns, and it makes at most max_steps model
\* calls.
C23_RunTerminates ==
    /\ [](maxSteps >= 1 => modelCalls <= maxSteps)
    /\ ((maxSteps >= 1 /\ Running) ~> (pc = "returned"))

\* a run that used its whole budget of model calls has returned
C23_Witness ==
    /\ pc = "returned"
    /\ maxSteps >= 2
    /\ modelCalls = maxSteps

\* C24: in every returned execution, Success = true implies that Error is
\* empty.
C24_SuccessHasNoError ==
    (pc = "returned" /\ ~runErr /\ execution.Success) => execution.Error = NoText

\* the tool messages appended by the current run, in order
RunToolMessages == SelectSeq(messages, LAMBDA m : m.Role = "tool")

\* the error text of a ToolResult: the text of the error Execute returned, or
\* the Error the tool put in its result
FailureText(toolResult) == toolResult.Error

\* C25: the tool message appended for a failed tool execution carries the
\* failure's error text as its content (so the next model call sees it).
C25_ToolMessageCarriesError ==
    \A i \in 1..Len(execution.ToolResults) :
       ~execution.ToolResults[i].Success =>
          /\ i <= Len(RunToolMessages)
          /\ RunToolMessages[i].Content = FailureText(execution.ToolResults[i])

\* position in messages of the latest assistant message
LastAssistant ==
    CHOOSE i \in 1..Len(messages) :
       /\ messages[i].Role = "assistant"
       /\ \A j \in (i + 1)..Len(messages) : messages[j].Role # "assistant"

\* C26: when the model is called again, every tool call c1..cn of the latest
\* assistant message has been executed exactly once, in order: the messages
\* after it are exactly n tool messages, the k-th answering ck, and the run has
\* made as many tool executions as it appended tool messages.
C26_ToolCallsInOrder ==
    (pc = "chat" /\ modelCalls >= 1) =>
       LET i == LastAssistant
           calls == messages[i].ToolCalls
       IN  /\ Len(messages) - i = Len(calls)
           /\ \A k \in 1..Len(calls) :
                 /\ messages[i + k].Role = "tool"
                 /\ messages[i + k].ToolCallID = calls[k].ID
           /\ toolExecs = Len(RunToolMessages)
           /\ toolExecs = Len(execution.ToolResults)

\* C27: every ToolResult appended to the execution, successful or failed,
\* carries as CallID the id of one of the tool calls of the latest assistant
\* message.
C27_ResultCarriesCallID ==
    [][toolExecs' = toolExecs + 1 =>
          LET result == execution'.ToolResults[Len(execution'.ToolResults)] IN
            \E k \in 1..Len(response.ToolCalls) : result.CallID = response.ToolCalls[k].ID]_vars

CurrentTask == conversationHistory[Len(conversationHistory)].Content[1]

\* C29: at the first model call of every run the step counter is 0 and the
\* conversation sent is exactly the system prompt followed by one user message
\* with that run's task, also on an agent that ran earlier tasks.
C29_RunStartsFresh ==
    (pc = "chat" /\ modelCalls = 0) =>
       /\ stepCount = 0
       /\ messages = <<SystemMessage, UserMessage(CurrentTask)>>

\* the registered tools whose names appear in toolNames
AllowedTools == {tool \in RegisteredTools : \E i \in 1..Len(toolNames) : toolNames[i] = tool}

\* C30: in a run started with a non-empty toolNames, the tool definitions
\* passed to the model are exactly the registered tools named in toolNames,
\* and only those tools are resolved and executed by the loop.
C30_OnlyNamedTools ==
    /\ []((Len(toolNames) > 0 /\ modelCalls >= 1) => Elements(chatTools) = AllowedTools)
    /\ [][(Len(toolNames) > 0 /\ toolExecs' = toolExecs + 1)
             => response.ToolCalls[tcIdx].Name \in AllowedTools]_vars

\* C31: for every tool execution, the success flag the execution tracker
\* records equals the Success field of the ToolResult the loop collects for
\* that call.
C31_TrackerMatchesResult ==
    [][toolExecs' = toolExecs + 1 =>
          tracker'[Len(tracker')].Success
             = execution'.ToolResults[Len(execution'.ToolResults)].Success]_vars

\* -- retry wrapper, continued
\* C32: on every retry the before-retry and the after-retry callback are each
\* invoked once: when an attempt is under way, each callback has been called
\* as many times as there were retries (attempt counts them).
C32_CallbacksOncePerRetry ==
    rcPc = "call" => (callbacks.before = attempt /\ callbacks.after = attempt)

\* the entry stored under k has passed its expiration time
Expired(c, k, t) == c[k] # NoEntry /\ t > c[k].Expiration

\* C33: a Get on a key whose entry has expired removes that entry, returns
\* not-found, and raises the miss counter and the eviction counter by exactly 1
C33_ExpiredGetEvicts ==
    [][\A p \in Procs :
          /\ (g[p].pc = "get_exp_delete" /\ g'[p].pc = "get_exp_rlock")
                => /\ Expired(cache, g[p].key, clock)
                   /\ cache'[g[p].key] = NoEntry
                   /\ stats'.Evictions = stats.Evictions + 1
                   /\ stats'.Misses = stats.Misses
          /\ (g[p].pc = "get_miss_store" /\ g[p].tmp[2] = 1 /\ g'[p].pc # "get_miss_store")
                => /\ ~g'[p].ret.ok
                   /\ stats'.Misses = stats.Misses + 1
                   /\ stats'.Evictions = stats.Evictions]_vars

\* C34: a Set that inserts a new key while the cache holds max-size entries
\* first removes exactly one entry, one whose creation timestamp is minimal
\* among the stored entries (reads by Get do not matter), and raises the
\* eviction counter by 1
C34_FullSetEvictsOldest ==
    [][\A p \in Procs :
          ( /\ g[p].pc = "body" /\ g[p].op \in {"Set", "Chat"} /\ g'[p].pc = "return"
            /\ g[p].key \notin StoredKeys(cache)
            /\ Cardinality(StoredKeys(cache)) >= cacheConfig.MaxSize )
          => /\ \E victim \in OldestKeys(cache) :
                   /\ StoredKeys(cache') = (StoredKeys(cache) \ {victim}) \cup {g[p].key}
                   /\ \A k \in StoredKeys(cache) \ {victim} : cache'[k] = cache[k]
             /\ stats'.Evictions = stats.Evictions + 1]_vars

\* C35: Cleanup, run by the sweeper at each tick, removes every entry whose
\* expiration time has passed and leaves every other entry, with its stored
\* message, as it was
C35_CleanupRemovesOnlyExpired ==
    [][(g[Sweeper].pc = "body" /\ g'[Sweeper].pc = "idle")
          => \A k \in Keys :
                /\ Expired(cache, k, clock) => cache'[k] = NoEntry
                /\ ~Expired(cache, k, clock) => cache'[k] = cache[k]]_vars

\* Cleanup holds the write lock over a cache with an entry whose expiration
\* time has passed and an entry that is still valid: its next step is the sweep
C35_Witness ==
    /\ g[Sweeper].pc = "body"
    /\ \E k \in StoredKeys(cache) : Expired(cache, k, clock)
    /\ \E k \in StoredKeys(cache) : ~Expired(cache, k, clock)

\* the fraction r equals num / den
RatioIs(r, num, den) == r[2] > 0 /\ den > 0 /\ r[1] * den = num * r[2]

\* C36: after every Get, hit or miss, HitRate equals hits / (hits + misses)
\* computed from the counters as they then are
C36_HitRateCurrentAfterGet ==
    [][\A p \in Procs :
          (g[p].pc \in {"get_miss_store", "get_hit_store"} /\ g'[p].pc # g[p].pc)
          => RatioIs(stats'.HitRate, stats'.Hits, stats'.Hits + stats'.Misses)]_vars

\* no cache operation is in progress
Quiescent == \A p \in DOMAIN g : g[p].pc = "idle"

\* C37: between operations, also after concurrent Get, Set, Delete and
\* Cleanup, Size equals the number of entries in the map and is not negative
C37_SizeIsEntryCount ==
    Quiescent => (stats.Size = Cardinality(StoredKeys(cache)) /\ stats.Size >= 0)

\* C38: Get removes an entry only if that very entry is expired: an entry a
\* Set stored on k that has not expired is never deleted by a concurrent Get
\* on k that saw an earlier, expired entry
C38_GetDeletesOnlyExpired ==
    [][\A p \in Procs :
          (g[p].op \in {"Get", "Chat"} /\ g[p].pc = "get_exp_delete"
           /\ cache[g[p].key] # NoEntry /\ cache'[g[p].key] = NoEntry)
          => Expired(cache, g[p].key, clock)]_vars

\* C39: while the Tool Registry is unchanged every call of GetToolDefinitions
\* returns the schemas in the same order, so consecutive model requests of a
\* run carry the same tool list
C39_ToolListOrderStable ==
    [][(Len(chatLog') = Len(chatLog) + 1 /\ chatTools # <<>>) => chatTools' = chatTools]_vars

\* C40: every Execute of the BashTool whose arguments leave out `timeout` runs
\* its command under the default timeout of 120 seconds, whatever timeouts
\* earlier calls on the same instance were given
C40_DefaultTimeoutWhenOmitted ==
    [][( /\ toolRuns' = toolRuns + 1
         /\ execCall'.tool = "bash"
         /\ execCall'.args.timeout = NoArg
         /\ Len(cmdRuns') = Len(cmdRuns) + 1 )
       => btTimeout' = DefaultBashTimeout]_vars

====
